---- MODULE Spec2Model ----
(***************************************************************************)
(* Model of resqdb: the scenario store (scenarios.py), the relational      *)
(* schema and get_or_create (models.py) and the result export (export.py). *)
(* The persisted store is a set of tables; every caller is a short-lived   *)
(* process that opens one SQLAlchemy Session per call.  Each database      *)
(* statement (SELECT, or the flush+COMMIT of a session) is one atomic      *)
(* step, so calls of different callers interleave between statements.      *)
(***************************************************************************)
EXTENDS Integers, Sequences, FiniteSets, TLC

(* ---------------------------------------------------------------------- *)
(* Bounds                                                                  *)
(* ---------------------------------------------------------------------- *)
\* total number of calls started in one behaviour
MaxCalls == 3
\* number of store_scenario_results calls among them
MaxStores == 2

\* the concurrent callers
Procs == {"c1", "c2"}

(* ---------------------------------------------------------------------- *)
(* SQL NULL / Python None: a nullable value is <<>> or <<v>>               *)
(* ---------------------------------------------------------------------- *)
NULL == <<>>
Some(v) == <<v>>
Val(x) == x[1]

(* ---------------------------------------------------------------------- *)
(* Reference tables, seeded once by setup_db                               *)
(* ---------------------------------------------------------------------- *)
DEFAULT_WEATHERS == <<"extreme1", "extreme2", "extreme3", "mean">>
DEFAULT_CLIMATES == <<"RCP8.5", "RCP4.5", "RCP2.6", "reference">>
DEFAULT_PERIODS == <<"P1", "P2", "P3">>

\* rows of a seeded reference table: serial ids in insertion order
SeededRows(names) == {[id |-> i, name |-> names[i]] : i \in 1..Len(names)}

Weather == SeededRows(DEFAULT_WEATHERS)
Climate == SeededRows(DEFAULT_CLIMATES)
Period == SeededRows(DEFAULT_PERIODS)
\* the sensitivity rows present in the store (created before any scenario)
Sensitivity == {[id |-> 1, node |-> "wind", attribute |-> "capacity"]}

\* Result.scalar_one_or_none() of "select id where name = ..." on a table
\* whose name column is unique
ScalarOneOrNone(ids) == IF ids = {} THEN NULL ELSE Some(CHOOSE i \in ids : TRUE)
\* a select without its where clause: the id of any row
SelectAnyId(table, name) == ScalarOneOrNone({r.id : r \in table})
SelectIdByName(table, name) == ScalarOneOrNone({r.id : r \in {t \in table : t.name = name}})

(* ---------------------------------------------------------------------- *)
(* Scenario table: columns and constraints                                 *)
(* ---------------------------------------------------------------------- *)
\* the index "scenario_without_sensitivity" had it been created without
\* unique=True
scenario_without_sensitivity_not_unique(T) ==
    \A r, q \in {t \in T : t.sensitivity_id = NULL} : r.id = q.id => r = q

\* unique partial index "scenario_without_sensitivity"
scenario_without_sensitivity(T) ==
    \A r, q \in {t \in T : t.sensitivity_id = NULL} :
        (r.period_id = q.period_id /\ r.weather_id = q.weather_id
            /\ r.climate_id = q.climate_id) => r = q

\* unique partial index "scenario_with_sensitivity"
scenario_with_sensitivity(T) ==
    \A r, q \in {t \in T : t.sensitivity_id # NULL} :
        (r.period_id = q.period_id /\ r.weather_id = q.weather_id
            /\ r.climate_id = q.climate_id
            /\ r.sensitivity_id = q.sensitivity_id) => r = q

\* a foreign key column: NULL, or the id of a row of the referenced table
ForeignKey(x, table) == x = NULL \/ \E t \in table : t.id = Val(x)

\* column constraints of class Scenario: primary key, name unique and NOT
\* NULL, the three NOT NULL foreign keys and the nullable one
ScenarioColumnsValid(T) ==
    /\ \A r, q \in T : r.id = q.id => r = q
    /\ \A r \in T : r.name # NULL
    /\ \A r, q \in T : r.name = q.name => r = q
    /\ \A r \in T : r.period_id # NULL /\ ForeignKey(r.period_id, Period)
    /\ \A r \in T : r.weather_id # NULL /\ ForeignKey(r.weather_id, Weather)
    /\ \A r \in T : r.climate_id # NULL /\ ForeignKey(r.climate_id, Climate)
    /\ \A r \in T : ForeignKey(r.sensitivity_id, Sensitivity)

\* every constraint the store enforces on the scenario table
ScenarioTableValid(T) ==
    /\ ScenarioColumnsValid(T)
    /\ scenario_without_sensitivity(T)
    /\ scenario_with_sensitivity(T)

\* Scenario rows that may be present in the store when the callers start
\* (the store outlives the callers; rows with a name are written by other
\* means than get_or_create, which leaves the name unset).  Rows 1 and 3
\* carry the same (period, weather, climate) without a sensitivity, so the
\* store never holds both.
SeedScenarios ==
    {[id |-> 1, name |-> Some("base"), period_id |-> Some(1), weather_id |-> Some(4),
      climate_id |-> Some(4), sensitivity_id |-> NULL],
     [id |-> 2, name |-> Some("base_sens"), period_id |-> Some(1), weather_id |-> Some(4),
      climate_id |-> Some(4), sensitivity_id |-> Some(1)],
     [id |-> 3, name |-> Some("base_copy"), period_id |-> Some(1), weather_id |-> Some(4),
      climate_id |-> Some(4), sensitivity_id |-> NULL]}

(* ---------------------------------------------------------------------- *)
(* Cluster configuration and lookup                                        *)
(* ---------------------------------------------------------------------- *)
\* content of config/clusters.json: cluster name -> list of components,
\* in file order
CLUSTERS ==
    << [cluster |-> "north", components |-> <<"wind">>],
       [cluster |-> "south", components |-> <<"load">>] >>

\* the components of one cluster added to the reverse mapping
RECURSIVE AddComponents(_, _, _)
AddComponents(component_mapping, cluster, components) ==
    IF components = <<>> \/ component_mapping.exc # "none" THEN component_mapping
    ELSE LET component == Head(components) IN
         IF component \in DOMAIN component_mapping.map
         THEN [exc |-> "ValueError",
               msg |-> <<component, component_mapping.map[component], cluster>>,
               map |-> component_mapping.map]
         ELSE AddComponents(
                [component_mapping EXCEPT !.map =
                    [c \in DOMAIN component_mapping.map \cup {component} |->
                        IF c = component THEN cluster ELSE component_mapping.map[c]]],
                cluster, Tail(components))

RECURSIVE CreateMappingFrom(_, _)
CreateMappingFrom(component_mapping, clusters_data) ==
    IF clusters_data = <<>> \/ component_mapping.exc # "none" THEN component_mapping
    ELSE CreateMappingFrom(
            AddComponents(component_mapping, Head(clusters_data).cluster,
                          Head(clusters_data).components),
            Tail(clusters_data))

\* settings._create_component_to_cluster_mapping
\* (the empty mapping is a function with an empty domain)
EmptyMapping == [c \in {} |-> ""]
create_component_to_cluster_mapping(clusters_data) ==
    CreateMappingFrom([exc |-> "none", msg |-> <<>>, map |-> EmptyMapping], clusters_data)

COMPONENT_CLUSTERS == create_component_to_cluster_mapping(CLUSTERS).map

\* Cluster rows the store may hold: the geometry table may lack a cluster
\* that the configuration names
SeedClusters == {[id |-> 1, name |-> "north"], [id |-> 2, name |-> "south"]}

\* contents the configuration file may have: the shipped one, one cluster
\* with two components, a component under two clusters (at the end and in
\* the middle of the file), a component twice in the list of one cluster,
\* and no cluster at all
ClusterOf(cluster, components) == [cluster |-> cluster, components |-> components]
ClustersJsonArgs ==
    { CLUSTERS,
      <<ClusterOf("north", <<"wind", "load">>)>>,
      <<ClusterOf("north", <<"wind">>), ClusterOf("south", <<"load", "wind">>)>>,
      <<ClusterOf("north", <<>>), ClusterOf("south", <<"load">>),
        ClusterOf("east", <<"load", "grid">>)>>,
      <<ClusterOf("north", <<"wind", "wind">>)>>,
      <<>> }

\* outcome of a call: the exception raised ("none" if it returned), the
\* identifiers named in its message, and the returned values
Returned(id, created) == [exc |-> "none", msg |-> <<>>, id |-> id, created |-> created]
Raised(exc, msg) == [exc |-> exc, msg |-> msg, id |-> 0, created |-> FALSE]
Pending == [exc |-> "pending", msg |-> <<>>, id |-> 0, created |-> FALSE]

\* a lookup that answers "no cluster" when the mapped cluster has no row
LookupClusterOrNone(component_clusters, component, T, db_up) ==
    IF component \notin DOMAIN component_clusters
    THEN [exc |-> "none", msg |-> <<>>, cluster_id |-> NULL]
    ELSE IF ~db_up
    THEN [exc |-> "OperationalError", msg |-> <<>>, cluster_id |-> NULL]
    ELSE [exc |-> "none", msg |-> <<>>,
          cluster_id |-> SelectIdByName(T, component_clusters[component])]

\* the body of scenarios.get_cluster_for_component, run with the loaded
\* mapping component_clusters against the cluster table T; the returned id
\* is nullable. The function has no try/except: when the database does not
\* answer (db_up is false), the error of session.execute leaves it as it is.
\* A component that is not in the mapping returns before any session opens.
LookupCluster(component_clusters, component, T, db_up) ==
    IF component \notin DOMAIN component_clusters
    THEN [exc |-> "none", msg |-> <<>>, cluster_id |-> NULL]
    ELSE LET cluster_name == component_clusters[component]
             result == SelectIdByName(T, cluster_name)
         IN IF ~db_up
            THEN [exc |-> "OperationalError", msg |-> <<>>, cluster_id |-> NULL]
            ELSE IF result = NULL
            THEN [exc |-> "KeyError", msg |-> <<cluster_name, component>>,
                  cluster_id |-> NULL]
            ELSE [exc |-> "none", msg |-> <<>>, cluster_id |-> result]

\* scenarios.get_cluster_for_component under the shipped configuration and
\* an answering database, run against the cluster table T
get_cluster_for_component(component, T) ==
    LookupCluster(COMPONENT_CLUSTERS, component, T, TRUE)

(* ---------------------------------------------------------------------- *)
(* store_scenario_results: from the simulation output to pending rows      *)
(* ---------------------------------------------------------------------- *)
\* a scalar value of the simulation output: its Python type and its number
\* (a str carries no number)
PyFloat(v) == [kind |-> "float", v |-> v]
PyInt(v) == [kind |-> "int", v |-> v]
PyBool(b) == [kind |-> "bool", v |-> IF b THEN 1 ELSE 0]
PyStr == [kind |-> "str", v |-> 0]

\* isinstance(value, (float, int, bool))
IsMeasurement(value) == value.kind \in {"float", "int", "bool"}
\* float(value)
ToFloat(value) == value.v

\* an entry of a series is a number <<x>> or missing (NaN) <<>>
NaN == <<>>

\* the series kept as it is, missing entries included
KeepMissing(series) == series

\* Series.dropna()
RECURSIVE dropna(_)
dropna(series) ==
    IF series = <<>> THEN <<>>
    ELSE IF Head(series) = NaN THEN dropna(Tail(series))
    ELSE <<Head(series)>> \o dropna(Tail(series))

\* Series.sum(): missing entries are skipped, the empty sum is 0
RECURSIVE sum(_)
sum(series) ==
    IF series = <<>> THEN 0
    ELSE (IF Head(series) = NaN THEN 0 ELSE Val(Head(series))) + sum(Tail(series))

\* the two lookups in the other order: the source's cluster overwrites the
\* destination's
ClusterOfEntrySourceLast(from_node_label, to_node_label, T) ==
    LET c1 == IF to_node_label # NULL /\ Val(to_node_label) \in DOMAIN COMPONENT_CLUSTERS
              THEN get_cluster_for_component(Val(to_node_label), T)
              ELSE [exc |-> "none", msg |-> <<>>, cluster_id |-> NULL]
    IN IF c1.exc # "none" THEN c1
       ELSE IF from_node_label \in DOMAIN COMPONENT_CLUSTERS
            THEN get_cluster_for_component(from_node_label, T)
            ELSE c1

\* the cluster of one (from_node, to_node) entry: the lookup for the source,
\* then the lookup for the destination, whose result overwrites the first
ClusterOfEntry(from_node_label, to_node_label, T) ==
    LET c1 == IF from_node_label \in DOMAIN COMPONENT_CLUSTERS
              THEN get_cluster_for_component(from_node_label, T)
              ELSE [exc |-> "none", msg |-> <<>>, cluster_id |-> NULL]
    IN IF c1.exc # "none" THEN c1
       ELSE IF to_node_label # NULL /\ Val(to_node_label) \in DOMAIN COMPONENT_CLUSTERS
            THEN get_cluster_for_component(Val(to_node_label), T)
            ELSE c1

\* the Scalar objects of one entry, in the order of result["scalars"]
RECURSIVE ScalarRows(_, _, _, _, _, _)
ScalarRows(scenario_id, is_exogenous, from_node, to_node, cluster_id, scalars) ==
    IF scalars = <<>> THEN <<>>
    ELSE LET attribute == Head(scalars)[1]
             value == Head(scalars)[2]
             rest == ScalarRows(scenario_id, is_exogenous, from_node, to_node,
                                cluster_id, Tail(scalars))
         IN IF ~IsMeasurement(value) THEN rest
            ELSE << [scenario_id |-> scenario_id, is_exogenous |-> is_exogenous,
                     from_node |-> from_node, to_node |-> to_node,
                     attribute |-> attribute, value |-> ToFloat(value),
                     cluster_id |-> cluster_id] >> \o rest

\* the Sequence objects of one entry, in the order of result["sequences"]
RECURSIVE SequenceRows(_, _, _, _, _, _)
SequenceRows(scenario_id, is_exogenous, from_node, to_node, cluster_id, sequences) ==
    IF sequences = <<>> THEN <<>>
    ELSE LET attribute == Head(sequences)[1]
             cleaned_series == dropna(Head(sequences)[2])
         IN << [scenario_id |-> scenario_id, is_exogenous |-> is_exogenous,
                from_node |-> from_node, to_node |-> to_node,
                attribute |-> attribute, timeseries |-> cleaned_series,
                total_energy |-> sum(cleaned_series),
                cluster_id |-> cluster_id] >>
            \o SequenceRows(scenario_id, is_exogenous, from_node, to_node,
                            cluster_id, Tail(sequences))

\* the objects added to the session for one data dict; a failed cluster
\* lookup raises out of the loop
RECURSIVE AddData(_, _, _, _, _)
AddData(session, scenario_id, is_exogenous, data, T) ==
    IF data = <<>> \/ session.exc # "none" THEN session
    ELSE LET entry == Head(data)
             c == ClusterOfEntry(entry.from_node, entry.to_node, T)
         IN IF c.exc # "none"
            THEN [session EXCEPT !.exc = c.exc, !.msg = c.msg]
            ELSE AddData(
                   [session EXCEPT
                      !.scalars = @ \o ScalarRows(scenario_id, is_exogenous,
                                     entry.from_node, entry.to_node, c.cluster_id,
                                     entry.scalars),
                      !.sequences = @ \o SequenceRows(scenario_id, is_exogenous,
                                     entry.from_node, entry.to_node, c.cluster_id,
                                     entry.sequences)],
                   scenario_id, is_exogenous, Tail(data), T)

EmptySession == [exc |-> "none", msg |-> <<>>, scalars |-> <<>>, sequences |-> <<>>]

\* the loop over ((True, input_data), (False, output_data))
AddResults(scenario_id, input_data, output_data, T) ==
    AddData(AddData(EmptySession, scenario_id, TRUE, input_data, T),
            scenario_id, FALSE, output_data, T)

(* ---------------------------------------------------------------------- *)
(* Scalar and Sequence tables: constraints                                 *)
(* ---------------------------------------------------------------------- *)
\* columns shared by class Scalar and class Sequence: primary key, the NOT
\* NULL scenario reference and the nullable cluster reference
ResultColumnsValid(T, scenarios, clusters) ==
    /\ \A r, q \in T : r.id = q.id => r = q
    /\ \A r \in T : \E s \in scenarios : s.id = r.scenario_id
    /\ \A r \in T : ForeignKey(r.cluster_id, clusters)

\* unique index "sequence_unique"; a NULL to_node never equals another one
sequence_unique(T) ==
    \A r, q \in T :
        (r.scenario_id = q.scenario_id /\ r.from_node = q.from_node
            /\ r.to_node # NULL /\ r.to_node = q.to_node
            /\ r.attribute = q.attribute) => r = q

ScalarTableValid(T, scenarios, clusters) == ResultColumnsValid(T, scenarios, clusters)

SequenceTableValid(T, scenarios, clusters) ==
    /\ ResultColumnsValid(T, scenarios, clusters)
    /\ sequence_unique(T)

\* the rows of a batch with their serial ids
WithIds(rows, first) ==
    {[id |-> first + i - 1] @@ rows[i] : i \in 1..Len(rows)}

\* ON DELETE CASCADE of scenario_id: the rows left when the scenarios with
\* the given ids are deleted
Cascade(T, deleted) == {r \in T : r.scenario_id \notin deleted}

\* ondelete="CASCADE" on cluster_id (not what the models declare): the rows
\* of T that reference a deleted cluster are removed
CascadeOnCluster(T, deleted) ==
    {r \in T : r.cluster_id = NULL \/ Val(r.cluster_id) \notin deleted}

\* ondelete="SET NULL" on cluster_id: the rows of T that reference a deleted
\* cluster stay and lose the reference
SetNull(T, deleted) ==
    {[r EXCEPT !.cluster_id =
        IF @ # NULL /\ Val(@) \in deleted THEN NULL ELSE @] : r \in T}

(* ---------------------------------------------------------------------- *)
(* Arguments the callers pass                                              *)
(* ---------------------------------------------------------------------- *)
\* (period, climate, weather, sensitivity_id) of create_scenario: names
\* with and without a row in the reference tables ("P4", "RCP1.9" and
\* "extreme4" have none)
CreateScenarioArgs ==
    {<<"P1", "reference", "mean", NULL>>,
     <<"P1", "reference", "mean", Some(1)>>,
     <<"P2", "reference", "mean", NULL>>,
     <<"P4", "reference", "mean", NULL>>,
     <<"P1", "RCP1.9", "mean", NULL>>,
     <<"P1", "reference", "extreme4", Some(1)>>,
     <<"P4", "RCP1.9", "extreme4", NULL>>}
\* scenario ids with and without a row
ScenarioIdArgs == {1, 2, 9}

\* entries of a simulation result: (from_node, to_node) -> scalars, sequences
Entry(from_node, to_node, scalars, sequences) ==
    [from_node |-> from_node, to_node |-> to_node,
     scalars |-> scalars, sequences |-> sequences]

\* wind -> load: both nodes are mapped to a cluster
EntryWindLoad ==
    Entry("wind", Some("load"),
          << <<"capacity", PyInt(3)>>, <<"tech", PyStr>> >>,
          << <<"flow", <<Some(2), NaN, Some(1)>> >> >>)
\* wind -> grid: only the source is mapped
EntryWindGrid ==
    Entry("wind", Some("grid"), << <<"expandable", PyBool(TRUE)>> >>,
          << <<"flow", <<NaN>> >> >>)
\* grid -> load: only the destination is mapped
EntryGridLoad ==
    Entry("grid", Some("load"), <<>>, << <<"flow", <<Some(1), Some(1)>> >> >>)
\* grid alone: no node is mapped, there is no destination
EntryGrid ==
    Entry("grid", NULL, << <<"capacity", PyFloat(1)>> >>,
          << <<"flow", <<NaN, Some(2)>> >> >>)

\* (input_data, output_data) of store_scenario_results, each a dict in
\* iteration order
StoreResultsArgs ==
    {<< <<>>, <<EntryWindLoad>> >>,
     << <<EntryWindLoad>>, <<EntryWindLoad>> >>,
     << <<EntryGrid>>, <<EntryGrid, EntryWindLoad>> >>,
     << <<>>, <<EntryWindGrid, EntryGridLoad>> >>}

(* ---------------------------------------------------------------------- *)
(* Materialized views: files, queries and the statements of create_view    *)
(* ---------------------------------------------------------------------- *)
\* a text is a sequence of tokens; ";" is the statement terminator
Keywords == {"sum", "max", "join", ";"}
\* relations created by setup_db that a query may read
BaseTables == {"scalar", "sequence"}
\* names of the materialized views the store may hold
ViewNames == {"totals", "shares"}

\* a file of VIEWS_DIR
File(stem, suffix, content) == [stem |-> stem, suffix |-> suffix, content |-> content]
TotalsSql == File("totals", ".sql", <<"sum", "scalar", ";">>)
SharesSql == File("shares", ".sql", <<"join", ";", "scalar", "sequence", ";">>)
SharesOfTotalsSql == File("shares", ".sql", <<"join", "totals", "sequence", ";">>)
SharesBrokenSql == File("shares", ".sql", <<"join", "totals", "results", ";">>)
NotesMd == File("notes", ".md", <<"sum", "sequence">>)

\* contents of VIEWS_DIR in the order iterdir yields them: views over the
\* tables only (next to a file that is not .sql), a view over another view,
\* and a view whose query reads a relation that does not exist
ViewsDirArgs ==
    { <<TotalsSql, NotesMd, SharesSql>>,
      <<TotalsSql, SharesOfTotalsSql>>,
      <<TotalsSql, SharesBrokenSql>> }

\* views.get_views: the .sql files of the directory, in order
RECURSIVE get_views(_)
get_views(dir) ==
    IF dir = <<>> THEN <<>>
    ELSE IF Head(dir).suffix # ".sql" THEN get_views(Tail(dir))
    ELSE <<Head(dir)>> \o get_views(Tail(dir))

\* str.replace(";", ""): every ";" of the text is removed
RECURSIVE RemoveSemicolons(_)
RemoveSemicolons(text) ==
    IF text = <<>> THEN <<>>
    ELSE IF Head(text) = ";" THEN RemoveSemicolons(Tail(text))
    ELSE <<Head(text)>> \o RemoveSemicolons(Tail(text))

\* views.read_query
read_query(view) == RemoveSemicolons(view.content)

\* the relations a query reads
Reads(query) == {query[i] : i \in 1..Len(query)} \ Keywords

\* the views that exist in the view set V
Existing(V) == {n \in DOMAIN V : V[n] # NULL}

\* the store analyses the query of a statement before it runs it: a query
\* over a relation that does not exist is rejected
Executable(query, V) == Reads(query) \subseteq BaseTables \cup Existing(V)

\* a view set the store can hold: every view reads existing relations only
ViewsValid(V) == \A n \in Existing(V) : Executable(Val(V[n]), V)

\* the query a stored view carries from an earlier version of its file
OutdatedQuery == <<"max", "scalar">>

\* the queries a stored view of this name may carry: those of the files
\* that define it and the outdated one
StoredQueries(view_name) ==
    {read_query(f) : f \in {g \in {TotalsSql, SharesSql, SharesOfTotalsSql} :
                                g.stem = view_name}} \cup {OutdatedQuery}

\* the view sets the store may hold when the callers start
ViewSets ==
    {V \in [ViewNames -> {NULL} \cup {Some(q) : q \in UNION {StoredQueries(n) : n \in ViewNames}}] :
        /\ \A n \in ViewNames : V[n] # NULL => Val(V[n]) \in StoredQueries(n)
        /\ ViewsValid(V)}

\* (view_name, query, recreate) of the direct calls of create_view
CreateViewArgs ==
    { <<"totals", OutdatedQuery, TRUE>>,
      <<"totals", OutdatedQuery, FALSE>>,
      <<"totals", read_query(TotalsSql), FALSE>>,
      <<"shares", read_query(SharesOfTotalsSql), TRUE>>,
      <<"shares", read_query(SharesBrokenSql), TRUE>>,
      <<"shares", read_query(SharesBrokenSql), FALSE>> }

\* outcome of a statement run in a session on the view set V
Done(V) == [exc |-> "none", views |-> V]
Failed(exc, V) == [exc |-> exc, views |-> V]

\* a drop statement that drops nothing
DropSkipped(V, view_name) == Done(V)

\* DROP MATERIALIZED VIEW IF EXISTS view_name; without CASCADE the store
\* refuses to drop a view that another view reads
DropIfExists(V, view_name) ==
    IF V[view_name] = NULL THEN Done(V)
    ELSE IF \E n \in Existing(V) \ {view_name} : view_name \in Reads(Val(V[n]))
    THEN Failed("InternalError", V)
    ELSE Done([V EXCEPT ![view_name] = NULL])

\* CREATE MATERIALIZED VIEW replacing an existing view (not what the code
\* issues)
CreateOrReplace(V, view_name, query) ==
    IF ~Executable(query, V) THEN Failed("ProgrammingError", V)
    ELSE Done([V EXCEPT ![view_name] = Some(query)])

\* CREATE MATERIALIZED VIEW IF NOT EXISTS view_name AS (query);
CreateIfNotExists(V, view_name, query) ==
    IF ~Executable(query, V) THEN Failed("ProgrammingError", V)
    ELSE IF V[view_name] # NULL THEN Done(V)
    ELSE Done([V EXCEPT ![view_name] = Some(query)])

\* the statements of one create_view session, run on the view set V: the
\* view set the session sees at its end and the error that ended it
CreateViewSession(V, view_name, query, recreate) ==
    LET dropped == IF recreate THEN DropIfExists(V, view_name) ELSE Done(V)
    IN IF dropped.exc # "none" THEN dropped
       ELSE CreateIfNotExists(dropped.views, view_name, query)

\* every statement of a session is persisted as it runs (not what the
\* engine is configured to do)
Autocommit(V, session) == session.views

\* the view set of the store after a session that started on V is closed:
\* session.commit() is reached only when no statement failed, otherwise the
\* exception leaves the with block and the transaction is rolled back
EndOfSession(V, session) ==
    IF session.exc = "none" THEN session.views ELSE V

(* ---------------------------------------------------------------------- *)
(* State                                                                   *)
(* ---------------------------------------------------------------------- *)
VARIABLES
    scenario,       \* table scenario
    scalar,         \* table scalar
    sequence,       \* table sequence
    cluster,        \* table cluster
    scenario_seq,   \* next value of the serial scenario.id
    scalar_seq,     \* next value of the serial scalar.id
    sequence_seq,   \* next value of the serial sequence.id
    pc,             \* per caller: the statement it executes next
    call,           \* per caller: the current (or last) call and its arguments
    loc,            \* per caller: local variables and session of the call
    ret,            \* per caller: outcome of the last call
    actor,          \* the caller that took the latest step
    ncalls,         \* calls started so far
    nstores,        \* store_scenario_results calls started so far
    clusters_json,  \* content of the cluster configuration file
    settings,       \* per caller: COMPONENT_CLUSTERS of its settings module
    views_dir,      \* the files of VIEWS_DIR, in directory order
    views,          \* materialized views of the store: name -> query or NULL
    applied         \* view set left by the latest create_all_views(True)
                    \* call, NULL once any other call has acted since

vars == <<scenario, scalar, sequence, cluster, scenario_seq, scalar_seq,
          sequence_seq, pc, call, loc, ret, actor, ncalls, nstores,
          clusters_json, settings, views_dir, views, applied>>

\* what the operations on scenarios and results never touch
environment == <<clusters_json, settings, views_dir, views, applied>>

tables == <<scenario, scalar, sequence, cluster>>
serials == <<scenario_seq, scalar_seq, sequence_seq>>

NoCall == [op |-> "none"]
NoLocals == [session |-> "closed"]

Init ==
    /\ scenario \in {T \in SUBSET SeedScenarios : ScenarioTableValid(T)}
    /\ scalar = {}
    /\ sequence = {}
    /\ cluster \in SUBSET SeedClusters
    /\ scenario_seq = 4
    /\ scalar_seq = 1
    /\ sequence_seq = 1
    /\ pc = [p \in Procs |-> "idle"]
    /\ call = [p \in Procs |-> NoCall]
    /\ loc = [p \in Procs |-> NoLocals]
    /\ ret = [p \in Procs |-> Pending]
    /\ actor = "none"
    /\ ncalls = 0
    /\ nstores = 0
    /\ clusters_json = CLUSTERS
    /\ settings = [p \in Procs |-> COMPONENT_CLUSTERS]
    /\ views_dir = <<TotalsSql, NotesMd, SharesSql>>
    /\ views = [n \in ViewNames |-> NULL]
    /\ applied = NULL

\* caller p starts call c and stays in it at statement next
Begin(p, c, next, locals) ==
    /\ pc' = [pc EXCEPT ![p] = next]
    /\ call' = [call EXCEPT ![p] = c]
    /\ loc' = [loc EXCEPT ![p] = locals]
    /\ ret' = [ret EXCEPT ![p] = Pending]
    /\ ncalls' = ncalls + 1
    /\ actor' = p
    /\ UNCHANGED environment

\* caller p starts call c and leaves it at once with outcome r
BeginEnd(p, c, r) ==
    /\ pc' = [pc EXCEPT ![p] = "idle"]
    /\ call' = [call EXCEPT ![p] = c]
    /\ loc' = [loc EXCEPT ![p] = NoLocals]
    /\ ret' = [ret EXCEPT ![p] = r]
    /\ ncalls' = ncalls + 1
    /\ actor' = p
    /\ UNCHANGED environment

\* the call of caller p ends with outcome r; its session is closed
End(p, r) ==
    /\ pc' = [pc EXCEPT ![p] = "idle"]
    /\ loc' = [loc EXCEPT ![p] = NoLocals]
    /\ ret' = [ret EXCEPT ![p] = r]
    /\ actor' = p
    /\ UNCHANGED <<call, ncalls>>
    /\ UNCHANGED environment

\* caller p moves on to statement next
Goto(p, next) ==
    /\ pc' = [pc EXCEPT ![p] = next]
    /\ actor' = p
    /\ UNCHANGED <<call, loc, ret, ncalls>>
    /\ UNCHANGED environment

(* ---------------------------------------------------------------------- *)
(* scenarios.create_scenario and models.get_or_create                      *)
(* ---------------------------------------------------------------------- *)
\* the checks of create_scenario on the looked-up ids: only the climate and
\* the weather are checked, in this order
CheckReferencesNoWeather(climate, climate_id, weather, weather_id) ==
    IF climate_id = NULL THEN Raised("KeyError", <<"Climate", climate>>)
    ELSE Pending

CheckReferences(climate, climate_id, weather, weather_id) ==
    IF climate_id = NULL THEN Raised("KeyError", <<"Climate", climate>>)
    ELSE IF weather_id = NULL THEN Raised("KeyError", <<"Weather", weather>>)
    ELSE Pending

\* create_scenario up to the call of get_or_create: the three lookups and
\* the checks
create_scenario(p, period, climate, weather, sensitivity_id) ==
    /\ pc[p] = "idle"
    /\ ncalls < MaxCalls
    /\ LET c == [op |-> "create_scenario", period |-> period, climate |-> climate,
                 weather |-> weather, sensitivity_id |-> sensitivity_id]
           period_id == SelectIdByName(Period, period)
           climate_id == SelectIdByName(Climate, climate)
           weather_id == SelectIdByName(Weather, weather)
           checked == CheckReferences(climate, climate_id, weather, weather_id)
       IN IF checked.exc # "pending"
          THEN BeginEnd(p, c, checked)
          ELSE Begin(p, c, "get_or_create",
                     [period_id |-> period_id, weather_id |-> weather_id,
                      climate_id |-> climate_id, sensitivity_id |-> sensitivity_id])
    /\ UNCHANGED <<tables, serials, nstores>>

\* session.query(model).filter_by(**kwargs): a None argument compares IS NULL
FilterBy(T, kwargs) ==
    {r \in T : /\ r.period_id = kwargs.period_id
               /\ r.weather_id = kwargs.weather_id
               /\ r.climate_id = kwargs.climate_id
               /\ r.sensitivity_id = kwargs.sensitivity_id}

\* get_or_create up to "return instance, False": .first() takes any match
get_or_create(p) ==
    /\ pc[p] = "get_or_create"
    /\ LET found == FilterBy(scenario, loc[p])
       IN IF found # {}
          THEN \E instance \in found : End(p, Returned(instance.id, FALSE))
          ELSE Goto(p, "get_or_create_commit")
    /\ UNCHANGED <<tables, serials, nstores>>

\* model(**kwargs): the columns not given stay None; the id is drawn from
\* the serial when the row is inserted
NewScenario(id, kwargs) ==
    [id |-> id, name |-> NULL, period_id |-> kwargs.period_id,
     weather_id |-> kwargs.weather_id, climate_id |-> kwargs.climate_id,
     sensitivity_id |-> kwargs.sensitivity_id]

\* get_or_create from "instance = model(**kwargs)": INSERT and COMMIT.  The
\* serial value is consumed whether or not the insert succeeds.
get_or_create_commit(p) ==
    /\ pc[p] = "get_or_create_commit"
    /\ LET instance == NewScenario(scenario_seq, loc[p])
       IN IF ScenarioTableValid(scenario \cup {instance})
          THEN /\ scenario' = scenario \cup {instance}
               /\ End(p, Returned(instance.id, TRUE))
          ELSE /\ scenario' = scenario
               /\ End(p, Raised("IntegrityError", <<"scenario">>))
    /\ scenario_seq' = scenario_seq + 1
    /\ UNCHANGED <<scalar, sequence, cluster, scalar_seq, sequence_seq, nstores>>

(* ---------------------------------------------------------------------- *)
(* scenarios.delete_scenario and scenarios.delete_all_scenarios            *)
(* ---------------------------------------------------------------------- *)
\* session.get(models.Scenario, scenario_id)
SessionGet(T, id) == ScalarOneOrNone({r.id : r \in {t \in T : t.id = id}})

\* Session.__exit__ without a commit: the session is closed, the deletions
\* marked in it are discarded and the tables stay as they are
CloseWithoutCommit(T, marked) == T

\* delete_scenario: session.delete marks the instance, then the with block
\* ends; session.delete(None) raises
delete_scenario(p, scenario_id) ==
    /\ pc[p] = "idle"
    /\ ncalls < MaxCalls
    /\ LET c == [op |-> "delete_scenario", scenario_id |-> scenario_id]
           instance == SessionGet(scenario, scenario_id)
       IN IF instance = NULL
          THEN /\ BeginEnd(p, c, Raised("UnmappedInstanceError", <<>>))
               /\ UNCHANGED <<scenario, scalar, sequence>>
          ELSE /\ BeginEnd(p, c, Returned(0, FALSE))
               /\ scenario' = CloseWithoutCommit(scenario, {Val(instance)})
               /\ scalar' = CloseWithoutCommit(scalar, {Val(instance)})
               /\ sequence' = CloseWithoutCommit(sequence, {Val(instance)})
    /\ UNCHANGED <<cluster, serials, nstores>>

\* delete_all_scenarios: DELETE FROM scenario and COMMIT; the referencing
\* rows go with the scenarios
delete_all_scenarios(p) ==
    /\ pc[p] = "idle"
    /\ ncalls < MaxCalls
    /\ BeginEnd(p, [op |-> "delete_all_scenarios"], Returned(0, FALSE))
    /\ scenario' = {}
    /\ scalar' = Cascade(scalar, {r.id : r \in scenario})
    /\ sequence' = Cascade(sequence, {r.id : r \in scenario})
    /\ UNCHANGED <<cluster, serials, nstores>>

(* ---------------------------------------------------------------------- *)
(* export.store_scenario_results                                           *)
(* ---------------------------------------------------------------------- *)
\* the existence check left out
GetOneNotChecked(T, scenario_id) == TRUE

\* session.get_one(models.Scenario, {"id": scenario_id}): raises
\* NoResultFound when there is no such row
GetOneFound(T, scenario_id) == SessionGet(T, scenario_id) # NULL

\* store_scenario_results up to the commit: the existence check, then the
\* loops that add the Scalar and Sequence objects to the session
store_scenario_results(p, scenario_id, input_data, output_data) ==
    /\ pc[p] = "idle"
    /\ ncalls < MaxCalls
    /\ nstores < MaxStores
    /\ nstores' = nstores + 1
    /\ LET c == [op |-> "store_scenario_results", scenario_id |-> scenario_id,
                 input_data |-> input_data, output_data |-> output_data]
           session == AddResults(scenario_id, input_data, output_data, cluster)
       IN IF ~GetOneFound(scenario, scenario_id)
          THEN BeginEnd(p, c, Raised("ValueError", <<scenario_id>>))
          ELSE IF session.exc # "none"
          THEN BeginEnd(p, c, Raised(session.exc, session.msg))
          ELSE Begin(p, c, "session_commit", session)
    /\ UNCHANGED <<tables, serials>>

\* a flush that commits table by table: the scalar rows stay when the
\* sequence rows are rejected
FlushPerTable(tbls, session) ==
    LET new_scalar == tbls.scalar \cup WithIds(session.scalars, tbls.scalar_seq)
        new_sequence == tbls.sequence \cup WithIds(session.sequences, tbls.sequence_seq)
    IN IF ~ScalarTableValid(new_scalar, tbls.scenario, tbls.cluster)
       THEN [exc |-> "IntegrityError", scalar |-> tbls.scalar, sequence |-> tbls.sequence]
       ELSE IF ~SequenceTableValid(new_sequence, tbls.scenario, tbls.cluster)
       THEN [exc |-> "IntegrityError", scalar |-> new_scalar, sequence |-> tbls.sequence]
       ELSE [exc |-> "none", scalar |-> new_scalar, sequence |-> new_sequence]

\* the flush of session.commit(): every pending row is inserted in one
\* transaction, which is rolled back when a constraint is violated
Flush(tbls, session) ==
    LET new_scalar == tbls.scalar \cup WithIds(session.scalars, tbls.scalar_seq)
        new_sequence == tbls.sequence \cup WithIds(session.sequences, tbls.sequence_seq)
    IN IF /\ ScalarTableValid(new_scalar, tbls.scenario, tbls.cluster)
          /\ SequenceTableValid(new_sequence, tbls.scenario, tbls.cluster)
       THEN [exc |-> "none", scalar |-> new_scalar, sequence |-> new_sequence]
       ELSE [exc |-> "IntegrityError", scalar |-> tbls.scalar, sequence |-> tbls.sequence]

\* session.commit() of store_scenario_results
session_commit(p) ==
    /\ pc[p] = "session_commit"
    /\ LET r == Flush([scalar |-> scalar, sequence |-> sequence,
                       scenario |-> scenario, cluster |-> cluster,
                       scalar_seq |-> scalar_seq, sequence_seq |-> sequence_seq],
                      loc[p])
       IN /\ scalar' = r.scalar
          /\ sequence' = r.sequence
          /\ IF r.exc = "none"
             THEN /\ End(p, Returned(0, FALSE))
                  /\ scalar_seq' = scalar_seq + Len(loc[p].scalars)
                  /\ sequence_seq' = sequence_seq + Len(loc[p].sequences)
             ELSE /\ End(p, Raised(r.exc, <<>>))
                  /\ UNCHANGED <<scalar_seq, sequence_seq>>
    /\ UNCHANGED <<scenario, cluster, scenario_seq, nstores>>

(* ---------------------------------------------------------------------- *)
(* main.run_scenario                                                       *)
(* ---------------------------------------------------------------------- *)
\* scenario files a caller runs: the scenario settings and the input and
\* output data their simulation yields. The first two name a scenario the
\* store may hold, the third one a scenario it does not hold, the last one
\* a climate without a row.
RunScenarioArgs ==
    { [scenario |-> <<"P1", "reference", "mean", NULL>>,
       input_data |-> <<>>, output_data |-> <<EntryWindLoad>>],
      [scenario |-> <<"P1", "reference", "mean", Some(1)>>,
       input_data |-> <<EntryGrid>>, output_data |-> <<EntryGrid, EntryWindLoad>>],
      [scenario |-> <<"P2", "reference", "mean", NULL>>,
       input_data |-> <<>>, output_data |-> <<EntryWindLoad>>],
      [scenario |-> <<"P1", "RCP1.9", "mean", NULL>>,
       input_data |-> <<>>, output_data |-> <<EntryWindLoad>>] }

\* the keyword arguments create_scenario passes to get_or_create for the
\* scenario settings of the call c
KwargsOf(c) ==
    [period_id |-> SelectIdByName(Period, c.period),
     weather_id |-> SelectIdByName(Weather, c.weather),
     climate_id |-> SelectIdByName(Climate, c.climate),
     sensitivity_id |-> c.sensitivity_id]

\* a run that stores whatever create_scenario reports
AlwaysCreated(outcome) == TRUE

\* "if created:" on the pair create_scenario returned
Created(outcome) == outcome.created

\* the session of store_scenario_results(scenario_id, input_data,
\* output_data) before its commit, or the exception that ends it
StoreSession(scenario_id, c) ==
    IF ~GetOneFound(scenario, scenario_id)
    THEN [EmptySession EXCEPT !.exc = "ValueError", !.msg = <<scenario_id>>]
    ELSE AddResults(scenario_id, c.input_data, c.output_data, cluster)

\* run_scenario(file) by caller p up to the commit of a new scenario:
\* create_scenario looks up the references and the scenario; when the
\* scenario exists it reports created=False and run_scenario returns
run_scenario(p, scenario_config) ==
    /\ pc[p] = "idle"
    /\ ncalls < MaxCalls
    /\ LET a == scenario_config.scenario
           c == [op |-> "run_scenario", period |-> a[1], climate |-> a[2],
                 weather |-> a[3], sensitivity_id |-> a[4],
                 input_data |-> scenario_config.input_data,
                 output_data |-> scenario_config.output_data]
           kwargs == KwargsOf(c)
           checked == CheckReferences(c.climate, kwargs.climate_id,
                                      c.weather, kwargs.weather_id)
           found == FilterBy(scenario, kwargs)
       IN IF checked.exc # "pending"
          THEN BeginEnd(p, c, checked)
          ELSE IF found = {}
          THEN Begin(p, c, "run_scenario_insert", kwargs)
          ELSE \E instance \in found :
                LET outcome == Returned(instance.id, FALSE)
                    session == StoreSession(instance.id, c)
                IN IF ~Created(outcome) THEN BeginEnd(p, c, Returned(0, FALSE))
                   ELSE IF session.exc # "none"
                   THEN BeginEnd(p, c, Raised(session.exc, session.msg))
                   ELSE Begin(p, c, "session_commit", session)
    /\ UNCHANGED <<tables, serials, nstores>>

\* run_scenario from the INSERT and COMMIT of get_or_create: a rejected
\* insert ends the call; after an accepted one create_scenario reports
\* created=True, the simulation runs and store_scenario_results adds its
\* rows to a session, which session_commit then commits
run_scenario_insert(p) ==
    /\ pc[p] = "run_scenario_insert"
    /\ LET instance == NewScenario(scenario_seq, loc[p])
           outcome == Returned(instance.id, TRUE)
           session == AddResults(instance.id, call[p].input_data,
                                 call[p].output_data, cluster)
       IN IF ~ScenarioTableValid(scenario \cup {instance})
          THEN /\ scenario' = scenario
               /\ End(p, Raised("IntegrityError", <<"scenario">>))
          ELSE /\ scenario' = scenario \cup {instance}
               /\ IF ~Created(outcome) THEN End(p, Returned(0, FALSE))
                  ELSE IF session.exc # "none"
                  THEN End(p, Raised(session.exc, session.msg))
                  ELSE /\ pc' = [pc EXCEPT ![p] = "session_commit"]
                       /\ loc' = [loc EXCEPT ![p] = session]
                       /\ actor' = p
                       /\ UNCHANGED <<call, ret, ncalls>>
                       /\ UNCHANGED environment
    /\ scenario_seq' = scenario_seq + 1
    /\ UNCHANGED <<scalar, sequence, cluster, scalar_seq, sequence_seq, nstores>>

(* ---------------------------------------------------------------------- *)
(* scenarios.get_cluster_for_component called on its own, and the deletion *)
(* of a cluster row                                                        *)
(* ---------------------------------------------------------------------- *)
\* components a caller asks for: "grid" is in no shipped cluster
ComponentArgs == {"wind", "load", "grid"}
\* ids of cluster rows a client deletes: 3 has no row
ClusterIdArgs == {1, 2, 3}

\* get_cluster_for_component(component) by caller p: one read of the
\* cluster table, or none; db_up tells whether the database answers
lookup_cluster(p, component, db_up) ==
    /\ pc[p] = "idle"
    /\ ncalls < MaxCalls
    /\ BeginEnd(p, [op |-> "get_cluster_for_component", component |-> component,
                    db_up |-> db_up],
                LookupCluster(settings[p], component, cluster, db_up))
    /\ UNCHANGED <<tables, serials, nstores>>

\* DELETE FROM cluster WHERE id = cluster_id, committed: the foreign keys
\* of scalar.cluster_id and sequence.cluster_id act on the referencing rows
delete_cluster(p, cluster_id) ==
    /\ pc[p] = "idle"
    /\ ncalls < MaxCalls
    /\ cluster' = {r \in cluster : r.id # cluster_id}
    /\ scalar' = SetNull(scalar, {cluster_id})
    /\ sequence' = SetNull(sequence, {cluster_id})
    /\ BeginEnd(p, [op |-> "delete_cluster", cluster_id |-> cluster_id],
                Returned(0, FALSE))
    /\ UNCHANGED <<scenario, serials, nstores>>

(* ---------------------------------------------------------------------- *)
(* views.create_view, create_all_views and delete_view                     *)
(* ---------------------------------------------------------------------- *)
\* outcome of a call that ran the session
OutcomeOf(session, view_name) ==
    IF session.exc = "none" THEN Returned(0, FALSE)
    ELSE Raised(session.exc, <<view_name>>)

\* some caller other than p is inside a call
OthersInside(p) == \E q \in Procs \ {p} : pc[q] # "idle"

\* create_view(view_name, query, recreate=recreate) called by p on its own:
\* one session, whose statements the store runs in one transaction
create_view(p, view_name, query, recreate) ==
    /\ pc[p] = "idle"
    /\ ncalls < MaxCalls
    /\ LET session == CreateViewSession(views, view_name, query, recreate)
       IN /\ views' = EndOfSession(views, session)
          /\ ret' = [ret EXCEPT ![p] = OutcomeOf(session, view_name)]
    /\ call' = [call EXCEPT ![p] = [op |-> "create_view", view_name |-> view_name,
                                     query |-> query, recreate |-> recreate]]
    /\ applied' = NULL
    /\ ncalls' = ncalls + 1
    /\ actor' = p
    /\ UNCHANGED <<tables, serials, pc, loc, nstores, clusters_json, settings,
                   views_dir>>

\* create_all_views(recreate=recreate) is called by p: the generator of
\* get_views is set up; views_at_call records the view set the call found
create_all_views(p, recreate) ==
    /\ pc[p] = "idle"
    /\ ncalls < MaxCalls
    /\ get_views(views_dir) # <<>>
    /\ pc' = [pc EXCEPT ![p] = "create_all_views"]
    /\ call' = [call EXCEPT ![p] = [op |-> "create_all_views", recreate |-> recreate]]
    /\ loc' = [loc EXCEPT ![p] = [session |-> "closed",
                                   view_paths |-> get_views(views_dir),
                                   views_at_call |-> views]]
    /\ ret' = [ret EXCEPT ![p] = Pending]
    /\ applied' = IF recreate /\ ~OthersInside(p) THEN applied ELSE NULL
    /\ ncalls' = ncalls + 1
    /\ actor' = p
    /\ UNCHANGED <<tables, serials, nstores, clusters_json, settings, views_dir,
                   views>>

\* one turn of the loop of create_all_views: the next file is read and
\* create_view runs its session and commits; an exception ends the call,
\* and so does the end of the directory
create_all_views_loop(p) ==
    /\ pc[p] = "create_all_views"
    /\ LET view_path == Head(loc[p].view_paths)
           query == read_query(view_path)
           session == CreateViewSession(views, view_path.stem, query, call[p].recreate)
           ends == session.exc # "none" \/ Tail(loc[p].view_paths) = <<>>
       IN /\ views' = EndOfSession(views, session)
          /\ IF ends
             THEN /\ pc' = [pc EXCEPT ![p] = "idle"]
                  /\ loc' = [loc EXCEPT ![p] = NoLocals]
                  /\ ret' = [ret EXCEPT ![p] = OutcomeOf(session, view_path.stem)]
                  /\ applied' = IF call[p].recreate /\ ~OthersInside(p)
                                THEN Some(views') ELSE NULL
             ELSE /\ loc' = [loc EXCEPT ![p].view_paths = Tail(@)]
                  /\ applied' = IF call[p].recreate THEN applied ELSE NULL
                  /\ UNCHANGED <<pc, ret>>
    /\ actor' = p
    /\ UNCHANGED <<tables, serials, call, ncalls, nstores, clusters_json, settings,
                   views_dir>>

\* delete_view(view_name) called by p
delete_view(p, view_name) ==
    /\ pc[p] = "idle"
    /\ ncalls < MaxCalls
    /\ LET session == DropIfExists(views, view_name)
       IN /\ views' = EndOfSession(views, session)
          /\ ret' = [ret EXCEPT ![p] = OutcomeOf(session, view_name)]
    /\ call' = [call EXCEPT ![p] = [op |-> "delete_view", view_name |-> view_name]]
    /\ applied' = NULL
    /\ ncalls' = ncalls + 1
    /\ actor' = p
    /\ UNCHANGED <<tables, serials, pc, loc, nstores, clusters_json, settings,
                   views_dir>>

(* ---------------------------------------------------------------------- *)
(* Loading the settings module                                             *)
(* ---------------------------------------------------------------------- *)
\* the module-level statements of settings.py run when caller p imports
\* the module: the configuration file is read and the mapping is built.
\* An exception ends the import, and with it the process: scenarios.py
\* imports settings, so no function of it can be called afterwards.
load_settings(p) ==
    /\ pc[p] = "import"
    /\ LET component_mapping == create_component_to_cluster_mapping(clusters_json)
       IN IF component_mapping.exc # "none"
          THEN /\ pc' = [pc EXCEPT ![p] = "import_error"]
               /\ ret' = [ret EXCEPT ![p] =
                            Raised(component_mapping.exc, component_mapping.msg)]
               /\ UNCHANGED settings
          ELSE /\ pc' = [pc EXCEPT ![p] = "idle"]
               /\ ret' = [ret EXCEPT ![p] = Returned(0, FALSE)]
               /\ settings' = [settings EXCEPT ![p] = component_mapping.map]
    /\ call' = [call EXCEPT ![p] = [op |-> "import settings"]]
    /\ actor' = p
    /\ UNCHANGED <<tables, serials, loc, ncalls, nstores, clusters_json,
                   views_dir, views, applied>>

(* ---------------------------------------------------------------------- *)
(* Specifications                                                          *)
(* ---------------------------------------------------------------------- *)
Next ==
    \/ \E p \in Procs, a \in CreateScenarioArgs :
            create_scenario(p, a[1], a[2], a[3], a[4])
    \/ \E p \in Procs : get_or_create(p)
    \/ \E p \in Procs : get_or_create_commit(p)
    \/ \E p \in Procs, scenario_id \in ScenarioIdArgs : delete_scenario(p, scenario_id)
    \/ \E p \in Procs : delete_all_scenarios(p)
    \/ \E p \in Procs, scenario_id \in ScenarioIdArgs, a \in StoreResultsArgs :
            store_scenario_results(p, scenario_id, a[1], a[2])
    \/ \E p \in Procs : session_commit(p)

\* callers interleave at every statement
Spec == Init /\ [][Next]_vars

\* at most one caller is inside a call: calls happen one after another
Sequential == Cardinality({p \in Procs : pc[p] # "idle"}) <= 1
SpecSeq == Init /\ [][Next /\ Sequential']_vars

\* lookups of clusters while cluster rows are deleted
NextLookup ==
    \/ \E p \in Procs, component \in ComponentArgs, db_up \in BOOLEAN :
            lookup_cluster(p, component, db_up)
    \/ \E p \in Procs, cluster_id \in ClusterIdArgs : delete_cluster(p, cluster_id)
SpecLookup == Init /\ [][NextLookup]_vars

\* every caller first imports the settings, from a configuration file of
\* any content, and then looks up clusters
InitConfig ==
    /\ scenario = {}
    /\ scalar = {}
    /\ sequence = {}
    /\ cluster \in SUBSET SeedClusters
    /\ scenario_seq = 1
    /\ scalar_seq = 1
    /\ sequence_seq = 1
    /\ pc = [p \in Procs |-> "import"]
    /\ call = [p \in Procs |-> NoCall]
    /\ loc = [p \in Procs |-> NoLocals]
    /\ ret = [p \in Procs |-> Pending]
    /\ actor = "none"
    /\ ncalls = 0
    /\ nstores = 0
    /\ clusters_json \in ClustersJsonArgs
    /\ settings = [p \in Procs |-> EmptyMapping]
    /\ views_dir = <<TotalsSql, NotesMd, SharesSql>>
    /\ views = [n \in ViewNames |-> NULL]
    /\ applied = NULL
NextConfig ==
    \/ \E p \in Procs : load_settings(p)
    \/ \E p \in Procs, component \in ComponentArgs, db_up \in BOOLEAN :
            lookup_cluster(p, component, db_up)
SpecConfig == InitConfig /\ [][NextConfig]_vars

\* the views are created and deleted, from any directory content and any
\* view set
InitViews ==
    /\ scenario = {}
    /\ scalar = {}
    /\ sequence = {}
    /\ cluster = SeedClusters
    /\ scenario_seq = 1
    /\ scalar_seq = 1
    /\ sequence_seq = 1
    /\ pc = [p \in Procs |-> "idle"]
    /\ call = [p \in Procs |-> NoCall]
    /\ loc = [p \in Procs |-> NoLocals]
    /\ ret = [p \in Procs |-> Pending]
    /\ actor = "none"
    /\ ncalls = 0
    /\ nstores = 0
    /\ clusters_json = CLUSTERS
    /\ settings = [p \in Procs |-> COMPONENT_CLUSTERS]
    /\ views_dir \in ViewsDirArgs
    /\ views \in ViewSets
    /\ applied = NULL
NextViews ==
    \/ \E p \in Procs, a \in CreateViewArgs : create_view(p, a[1], a[2], a[3])
    \/ \E p \in Procs, recreate \in BOOLEAN : create_all_views(p, recreate)
    \/ \E p \in Procs : create_all_views_loop(p)
    \/ \E p \in Procs, view_name \in ViewNames : delete_view(p, view_name)
SpecViews == InitViews /\ [][NextViews]_vars
\* the calls on the views happen one after another: a caller takes a step
\* only while no other caller is inside a call
InTurn == \A q \in Procs \ {actor'} : pc[q] = "idle"
SpecViewsSeq == InitViews /\ [][NextViews /\ InTurn]_vars

\* scenarios are run while results are stored for the scenarios the store
\* holds
NextRun ==
    \/ \E p \in Procs, scenario_config \in RunScenarioArgs :
            run_scenario(p, scenario_config)
    \/ \E p \in Procs : run_scenario_insert(p)
    \/ \E p \in Procs, scenario_id \in ScenarioIdArgs, a \in StoreResultsArgs :
            store_scenario_results(p, scenario_id, a[1], a[2])
    \/ \E p \in Procs : session_commit(p)
SpecRun == Init /\ [][NextRun]_vars

\* results are stored while cluster rows are deleted
NextCluster ==
    \/ \E p \in Procs, scenario_id \in ScenarioIdArgs, a \in StoreResultsArgs :
            store_scenario_results(p, scenario_id, a[1], a[2])
    \/ \E p \in Procs : session_commit(p)
    \/ \E p \in Procs, cluster_id \in ClusterIdArgs : delete_cluster(p, cluster_id)
SpecCluster == Init /\ [][NextCluster]_vars

(* ---------------------------------------------------------------------- *)
(* Properties of create_scenario                                           *)
(* ---------------------------------------------------------------------- *)
HasRow(table, name) == \E r \in table : r.name = name

\* the call c is a create_scenario whose period, climate, weather and
\* sensitivity all have a row
ReferencesExist(c) ==
    /\ c.op = "create_scenario"
    /\ HasRow(Period, c.period) /\ HasRow(Climate, c.climate) /\ HasRow(Weather, c.weather)
    /\ ForeignKey(c.sensitivity_id, Sensitivity)

\* the scenario rows with the natural key the call c names
RowsOfCall(c) ==
    {r \in scenario :
        /\ r.period_id = SelectIdByName(Period, c.period)
        /\ r.weather_id = SelectIdByName(Weather, c.weather)
        /\ r.climate_id = SelectIdByName(Climate, c.climate)
        /\ r.sensitivity_id = c.sensitivity_id}

\* C1: two create_scenario calls in sequence with the same arguments, whose
\* references exist, both return the same scenario id; the second reports
\* created = FALSE, the first reports created = TRUE exactly when the row
\* was not in the store before, and the store holds exactly one row for the
\* key afterwards.  (Checked where calls run one after another: after two
\* calls by two callers the actor is the second caller.)
C1_TwiceSameScenario ==
    \A first, second \in Procs :
        (/\ first # second /\ actor = second /\ ncalls = 2
         /\ pc[first] = "idle" /\ pc[second] = "idle"
         /\ call[first] = call[second] /\ ReferencesExist(call[first]))
        => /\ ret[first].exc = "none" /\ ret[second].exc = "none"
           /\ ret[first].id = ret[second].id
           /\ ~ret[second].created
           /\ ret[first].created = (\A r \in SeedScenarios : r.id # ret[first].id)
           /\ \E r \in RowsOfCall(call[first]) :
                r.id = ret[first].id /\ RowsOfCall(call[first]) = {r}

\* C2: two callers passed the existence check of get_or_create for the same
\* key before either inserted; the one whose insert the store then rejects
\* does not fail but returns the existing scenario with created = FALSE.
C2_RaceLoserGetsExisting ==
    [][\A p, q \in Procs :
        (/\ p # q /\ actor' = p
         /\ pc[p] = "get_or_create_commit" /\ pc[q] = "get_or_create_commit"
         /\ call[p] = call[q] /\ ReferencesExist(call[p])
         /\ scenario' = scenario)
        => /\ ret'[p].exc = "none" /\ ~ret'[p].created
           /\ \E r \in RowsOfCall(call[p]) : r.id = ret'[p].id]_vars

\* C3: the scenario table never holds two rows with a sensitivity that
\* share (period, weather, climate, sensitivity), nor two rows without a
\* sensitivity that share (period, weather, climate).
C3_PartialUniqueness ==
    \A r, q \in scenario :
        (/\ r # q
         /\ r.period_id = q.period_id /\ r.weather_id = q.weather_id
         /\ r.climate_id = q.climate_id)
        => /\ ~(r.sensitivity_id = NULL /\ q.sensitivity_id = NULL)
           /\ ~(r.sensitivity_id # NULL /\ r.sensitivity_id = q.sensitivity_id)

\* two callers have raced to create the same scenario while the table holds
\* a row without and a row with a sensitivity for one (period, weather,
\* climate)
C3_Witness ==
    /\ \E r, q \in scenario :
        /\ r.sensitivity_id = NULL /\ q.sensitivity_id # NULL
        /\ r.period_id = q.period_id /\ r.weather_id = q.weather_id
        /\ r.climate_id = q.climate_id
    /\ \E p, q \in Procs :
        /\ p # q /\ call[p] = call[q] /\ call[p].op = "create_scenario"
        /\ pc[p] = "idle" /\ ret[p].exc = "IntegrityError"
        /\ pc[q] = "get_or_create_commit"

\* C4: a create_scenario call whose climate or weather has no row ends in
\* its first step with a KeyError, and that step leaves the scenario table
\* (and its serial) as it was.
C4_MissingClimateOrWeather ==
    [][\A p \in Procs :
        (/\ actor' = p /\ pc[p] = "idle"
         /\ call'[p].op = "create_scenario"
         /\ (~HasRow(Climate, call'[p].climate) \/ ~HasRow(Weather, call'[p].weather)))
        => /\ pc'[p] = "idle"
           /\ ret'[p].exc = "KeyError"
           /\ scenario' = scenario /\ scenario_seq' = scenario_seq]_vars

\* a call with an existing climate and a missing weather has raised KeyError
C4_Witness ==
    \E p \in Procs :
        /\ call[p].op = "create_scenario" /\ pc[p] = "idle"
        /\ HasRow(Climate, call[p].climate) /\ ~HasRow(Weather, call[p].weather)
        /\ ret[p].exc = "KeyError" /\ ret[p].msg = <<"Weather", call[p].weather>>

\* C5: a completed create_scenario call whose period has no row (its
\* climate and weather have one) has failed with KeyError, the error of a
\* missing climate or weather, without attempting an insert.
C5_MissingPeriod ==
    \A p \in Procs :
        (/\ call[p].op = "create_scenario" /\ pc[p] = "idle"
         /\ ~HasRow(Period, call[p].period)
         /\ HasRow(Climate, call[p].climate) /\ HasRow(Weather, call[p].weather))
        => ret[p].exc = "KeyError"

(* ---------------------------------------------------------------------- *)
(* Properties of delete_scenario                                           *)
(* ---------------------------------------------------------------------- *)
\* C6: once delete_scenario(id) has returned, the store holds no scenario
\* with that id and no scalar or sequence row that references it.
C6_DeleteRemovesScenario ==
    \A p \in Procs :
        (call[p].op = "delete_scenario" /\ pc[p] = "idle" /\ ret[p].exc = "none")
        => /\ \A r \in scenario : r.id # call[p].scenario_id
           /\ \A r \in scalar : r.scenario_id # call[p].scenario_id
           /\ \A r \in sequence : r.scenario_id # call[p].scenario_id

(* ---------------------------------------------------------------------- *)
(* Properties of store_scenario_results                                    *)
(* ---------------------------------------------------------------------- *)
\* caller p takes a step of a store_scenario_results call
StoreStep(p) == actor' = p /\ call'[p].op = "store_scenario_results"

\* caller p takes the step in which its store_scenario_results call returns
StoreReturns(p) == StoreStep(p) /\ pc'[p] = "idle" /\ ret'[p].exc = "none"

\* the data dict of call c for one value of the exogenous flag
DataOf(c, is_exogenous) == IF is_exogenous THEN c.input_data ELSE c.output_data

\* C7: a store_scenario_results call for a scenario id without a row ends
\* in its first step with a ValueError; no row is added to the session and
\* the scalar and sequence tables stay as they were.
C7_UnknownScenario ==
    [][\A p \in Procs :
        (/\ StoreStep(p) /\ pc[p] = "idle"
         /\ \A r \in scenario : r.id # call'[p].scenario_id)
        => /\ pc'[p] = "idle"
           /\ ret'[p].exc = "ValueError"
           /\ loc'[p] = NoLocals
           /\ scalar' = scalar /\ sequence' = sequence
           /\ scalar_seq' = scalar_seq /\ sequence_seq' = sequence_seq]_vars

\* a call for the missing scenario 9 has raised ValueError
C7_Witness ==
    \E p \in Procs :
        /\ call[p].op = "store_scenario_results" /\ pc[p] = "idle"
        /\ \A r \in scenario : r.id # call[p].scenario_id
        /\ ret[p].exc = "ValueError"

\* the measurements of call c: (exogenous flag, entry, attribute) of every
\* scalar with a numeric or boolean value
ScalarsOfCall(c) ==
    {<<x, i, j>> \in BOOLEAN \X (1..2) \X (1..2) :
        /\ i <= Len(DataOf(c, x)) /\ j <= Len(DataOf(c, x)[i].scalars)
        /\ DataOf(c, x)[i].scalars[j][2].kind # "str"}

\* the series of call c: (exogenous flag, entry, attribute)
SeriesOfCall(c) ==
    {<<x, i, j>> \in BOOLEAN \X (1..2) \X (1..2) :
        /\ i <= Len(DataOf(c, x)) /\ j <= Len(DataOf(c, x)[i].sequences)}

\* row r is the row of measurement or series m = (x, i, j) of call c
RowOf(r, c, m, attrs) ==
    /\ r.scenario_id = c.scenario_id
    /\ r.is_exogenous = m[1]
    /\ r.from_node = DataOf(c, m[1])[m[2]].from_node
    /\ r.to_node = DataOf(c, m[1])[m[2]].to_node
    /\ r.attribute = attrs[m[3]][1]

\* C8: one store_scenario_results call is all or nothing: the step in which
\* it returns adds one scalar row per measurement and one sequence row per
\* series of the call; every other step of the call, the one in which it
\* fails included, leaves both tables as they were.
C8_AllOrNothing ==
    [][\A p \in Procs : StoreStep(p) =>
        IF StoreReturns(p)
        THEN LET c == call'[p] IN
             /\ scalar \subseteq scalar' /\ sequence \subseteq sequence'
             /\ Cardinality(scalar' \ scalar) = Cardinality(ScalarsOfCall(c))
             /\ Cardinality(sequence' \ sequence) = Cardinality(SeriesOfCall(c))
             /\ \A m \in ScalarsOfCall(c) : \E r \in scalar' \ scalar :
                    RowOf(r, c, m, DataOf(c, m[1])[m[2]].scalars)
             /\ \A m \in SeriesOfCall(c) : \E r \in sequence' \ sequence :
                    RowOf(r, c, m, DataOf(c, m[1])[m[2]].sequences)
        ELSE scalar' = scalar /\ sequence' = sequence]_vars

\* one call has failed at its commit with rows in its session (the same
\* node pair in the input and in the output data), another has returned
\* and its rows are in the store
C8_Witness ==
    \E p, q \in Procs :
        /\ call[p].op = "store_scenario_results" /\ pc[p] = "idle"
        /\ ret[p].exc = "IntegrityError"
        /\ ScalarsOfCall(call[p]) # {}
        /\ call[q].op = "store_scenario_results" /\ pc[q] = "idle"
        /\ ret[q].exc = "none"
        /\ \E r \in scalar : r.scenario_id = call[q].scenario_id
        /\ \E r \in sequence : r.scenario_id = call[q].scenario_id

\* the persisted id of the cluster the configuration maps a component to
ClusterIdOf(component) ==
    LET ids == {r.id : r \in {t \in cluster : t.name = COMPONENT_CLUSTERS[component]}}
    IN IF ids = {} THEN NULL ELSE Some(CHOOSE i \in ids : TRUE)

\* the attribution of an entry (A, B): B's cluster if B is mapped, else A's
\* cluster if A is mapped, else none
Attribution(A, B) ==
    IF B # NULL /\ Val(B) \in DOMAIN COMPONENT_CLUSTERS THEN ClusterIdOf(Val(B))
    ELSE IF A \in DOMAIN COMPONENT_CLUSTERS THEN ClusterIdOf(A)
    ELSE NULL

\* C9: every scalar and sequence row a store_scenario_results call persists
\* carries the cluster of its destination node if that node is mapped, else
\* the cluster of its source node if that one is mapped, else no cluster.
C9_DestinationWins ==
    [][\A p \in Procs : StoreReturns(p) =>
        /\ \A r \in scalar' \ scalar :
            r.cluster_id = Attribution(r.from_node, r.to_node)
        /\ \A r \in sequence' \ sequence :
            r.cluster_id = Attribution(r.from_node, r.to_node)]_vars

\* rows of wind -> load, both mapped, are stored with the cluster of load;
\* rows of wind -> grid with the cluster of wind; rows of grid with none
C9_Witness ==
    /\ \E r \in scalar : /\ r.from_node = "wind" /\ r.to_node = Some("load")
                         /\ r.cluster_id = ClusterIdOf("load")
                         /\ r.cluster_id # ClusterIdOf("wind")
    /\ \E r \in sequence : /\ r.from_node = "wind" /\ r.to_node = Some("grid")
                           /\ r.cluster_id = ClusterIdOf("wind")
    /\ \E r \in sequence : r.from_node = "grid" /\ r.to_node = NULL /\ r.cluster_id = NULL

\* the sum of the first n entries of a series without missing entries
RECURSIVE TotalOf(_, _)
TotalOf(series, n) == IF n = 0 THEN 0 ELSE TotalOf(series, n - 1) + Val(series[n])

\* C10: every sequence row a store_scenario_results call persists holds the
\* input series of its (node pair, attribute) without the missing entries,
\* in the input's order, and its total_energy is the sum of the entries of
\* the persisted timeseries.
C10_CleanedSeries ==
    [][\A p \in Procs : StoreReturns(p) =>
        \A r \in sequence' \ sequence :
            /\ \A k \in 1..Len(r.timeseries) : r.timeseries[k] # NaN
            /\ r.total_energy = TotalOf(r.timeseries, Len(r.timeseries))
            /\ \E m \in SeriesOfCall(call'[p]) :
                LET sequences == DataOf(call'[p], m[1])[m[2]].sequences IN
                /\ RowOf(r, call'[p], m, sequences)
                /\ r.timeseries = SelectSeq(sequences[m[3]][2], LAMBDA x : x # NaN)]_vars

\* the series <<2, NaN, 1>> is stored as <<2, 1>> with total 3, and the
\* series <<NaN>> as the empty series with total 0
C10_Witness ==
    /\ \E r \in sequence : r.timeseries = <<Some(2), Some(1)>> /\ r.total_energy = 3
    /\ \E r \in sequence : r.timeseries = <<>> /\ r.total_energy = 0

(* ---------------------------------------------------------------------- *)
(* Uniqueness of the result rows                                           *)
(* ---------------------------------------------------------------------- *)
\* the rows r and s of a result table carry the same key
SameKey(r, s) ==
    /\ r.scenario_id = s.scenario_id
    /\ r.from_node = s.from_node
    /\ r.to_node = s.to_node
    /\ r.attribute = s.attribute

\* C11: the table scalar holds at most one row per scenario, source node,
\* destination node and attribute, whatever store calls have been made
C11_ScalarKeyUnique ==
    \A r, s \in scalar : SameKey(r, s) => r.id = s.id

\* C12: the table sequence holds at most one row per scenario, source node,
\* destination node and attribute, rows without a destination node included
C12_SequenceKeyUnique ==
    \A r, s \in sequence : SameKey(r, s) => r.id = s.id

(* ---------------------------------------------------------------------- *)
(* Properties of get_cluster_for_component                                 *)
(* ---------------------------------------------------------------------- *)
\* caller p makes a get_cluster_for_component call in this step
LookupStep(p) ==
    /\ actor' = p
    /\ ncalls' = ncalls + 1
    /\ call'[p].op = "get_cluster_for_component"

\* the text x occurs in the message msg
Names(msg, x) == \E i \in 1..Len(msg) : msg[i] = x

\* C13: a lookup of a component that is mapped to a cluster name without a
\* row in the cluster table raises KeyError with a message that names the
\* component and the cluster name; it never returns "no cluster"
C13_MissingClusterRaises ==
    [][\A p \in Procs :
        LET component == call'[p].component IN
        (/\ LookupStep(p)
         /\ call'[p].db_up
         /\ component \in DOMAIN settings[p]
         /\ ~HasRow(cluster, settings[p][component]))
        => /\ ret'[p].exc = "KeyError"
           /\ Names(ret'[p].msg, component)
           /\ Names(ret'[p].msg, settings[p][component])]_vars
C13_Witness ==
    \E p \in Procs :
        /\ call[p].op = "get_cluster_for_component"
        /\ call[p].component = "wind"
        /\ ret[p].exc = "KeyError"
        /\ ret[p].msg = <<"north", "wind">>
        /\ ~HasRow(cluster, "north")

\* C14: a lookup of a component that is not in the mapping returns None,
\* whatever the cluster table holds and whether or not the database
\* answers; a lookup of a mapped component whose cluster has a row returns
\* the id of that row
C14_UnmappedNoneMappedId ==
    [][\A p \in Procs :
        LET component == call'[p].component IN
        LookupStep(p) =>
          /\ component \notin DOMAIN settings[p]
               => ret'[p].exc = "none" /\ ret'[p].cluster_id = NULL
          /\ (/\ component \in DOMAIN settings[p]
              /\ call'[p].db_up
              /\ HasRow(cluster, settings[p][component]))
               => /\ ret'[p].exc = "none"
                  /\ ret'[p].cluster_id # NULL
                  /\ \E r \in cluster : /\ r.name = settings[p][component]
                                         /\ r.id = Val(ret'[p].cluster_id)]_vars
C14_Witness ==
    \E p, q \in Procs :
        /\ call[p].op = "get_cluster_for_component"
        /\ call[p].component = "grid"
        /\ ~call[p].db_up
        /\ ret[p].exc = "none" /\ ret[p].cluster_id = NULL
        /\ call[q].op = "get_cluster_for_component"
        /\ call[q].component = "load"
        /\ ret[q].exc = "none" /\ ret[q].cluster_id = Some(2)
        /\ cluster = {[id |-> 2, name |-> "south"]}

\* C19: whenever the lookup of a mapped component ends with an error, a
\* database error included, the error the caller gets is a KeyError
C19_DatabaseErrorIsKeyError ==
    [][\A p \in Procs :
        (/\ LookupStep(p)
         /\ call'[p].component \in DOMAIN settings[p]
         /\ ret'[p].exc # "none")
        => ret'[p].exc = "KeyError"]_vars

(* ---------------------------------------------------------------------- *)
(* Properties of the component mapping                                     *)
(* ---------------------------------------------------------------------- *)
\* the cluster names of the configuration that list the component
ClustersListing(clusters_data, component) ==
    {clusters_data[i].cluster : i \in
        {k \in 1..Len(clusters_data) :
            \E j \in 1..Len(clusters_data[k].components) :
                clusters_data[k].components[j] = component}}

\* the components the configuration lists
Listed(clusters_data) ==
    UNION {{clusters_data[k].components[j] : j \in 1..Len(clusters_data[k].components)} :
            k \in 1..Len(clusters_data)}

\* some component is listed under two cluster names
Ambiguous(clusters_data) ==
    \E component \in Listed(clusters_data) :
        Cardinality(ClustersListing(clusters_data, component)) >= 2

\* caller p loads the settings in this step
LoadStep(p) == actor' = p /\ pc[p] = "import" /\ pc'[p] # "import"

\* C15: loading a configuration that lists a component under two cluster
\* names fails with an error that names the component and both cluster
\* names; no lookup is served by a caller whose configuration is such;
\* loading any other configuration yields a mapping whose components are
\* the listed ones, each mapped to the cluster that lists it
C15_MappingFromConfiguration ==
    [][\A p \in Procs :
        /\ (LoadStep(p) /\ Ambiguous(clusters_json))
             => /\ ret'[p].exc = "ValueError"
                /\ \E component \in Listed(clusters_json) :
                     \E a, b \in ClustersListing(clusters_json, component) :
                        /\ a # b
                        /\ Names(ret'[p].msg, component)
                        /\ Names(ret'[p].msg, a)
                        /\ Names(ret'[p].msg, b)
        /\ LookupStep(p) => ~Ambiguous(clusters_json)
        /\ (LoadStep(p) /\ ~Ambiguous(clusters_json))
             => /\ ret'[p].exc = "none"
                /\ pc'[p] = "idle"
                /\ DOMAIN settings'[p] = Listed(clusters_json)
                /\ \A component \in Listed(clusters_json) :
                     ClustersListing(clusters_json, component)
                        = {settings'[p][component]}]_vars

(* ---------------------------------------------------------------------- *)
(* Properties of the deletion of a cluster                                 *)
(* ---------------------------------------------------------------------- *)
\* caller p deletes a cluster row in this step
DeleteClusterStep(p) ==
    /\ actor' = p
    /\ ncalls' = ncalls + 1
    /\ call'[p].op = "delete_cluster"

\* the result table T2 holds the rows of T, each with every attribute as it
\* was except the reference to the cluster deleted, which is null
RowsKeptWithoutReference(T, T2, deleted) ==
    /\ {r.id : r \in T2} = {r.id : r \in T}
    /\ Cardinality(T2) = Cardinality(T)
    /\ \A r \in T, q \in T2 :
         r.id = q.id =>
            /\ q.cluster_id = IF r.cluster_id = Some(deleted) THEN NULL
                              ELSE r.cluster_id
            /\ [q EXCEPT !.cluster_id = NULL] = [r EXCEPT !.cluster_id = NULL]

\* C16: the deletion of a cluster row removes no scalar and no sequence
\* row; the rows that referenced the cluster have a null cluster reference
\* afterwards and every other attribute, of these and of all other rows,
\* is as before
C16_ClusterDeletionSetsNull ==
    [][\A p \in Procs :
        (DeleteClusterStep(p) /\ \E r \in cluster : r.id = call'[p].cluster_id)
        => /\ ~\E r \in cluster' : r.id = call'[p].cluster_id
           /\ RowsKeptWithoutReference(scalar, scalar', call'[p].cluster_id)
           /\ RowsKeptWithoutReference(sequence, sequence', call'[p].cluster_id)]_vars
C16_Witness ==
    \E p \in Procs :
        /\ call[p].op = "delete_cluster"
        /\ call[p].cluster_id = 2
        /\ ~\E r \in cluster : r.id = 2
        /\ \E r \in scalar :
             r.from_node = "wind" /\ r.to_node = Some("load") /\ r.cluster_id = NULL
        /\ \E r \in sequence :
             r.from_node = "wind" /\ r.to_node = Some("load") /\ r.cluster_id = NULL

(* ---------------------------------------------------------------------- *)
(* Properties of the materialized views                                    *)
(* ---------------------------------------------------------------------- *)
\* a create_all_views call of caller p ends in this step
CreateAllViewsEnds(p) ==
    /\ actor' = p
    /\ pc[p] = "create_all_views"
    /\ pc'[p] = "idle"

\* in the view set V every .sql file of the directory has its view, with
\* the query of the file
OneViewPerQuery(V, dir) ==
    \A i \in 1..Len(dir) :
        dir[i].suffix = ".sql" => V[dir[i].stem] = Some(read_query(dir[i]))

CreateViewStep(p) ==
    /\ actor' = p
    /\ \/ ncalls' = ncalls + 1 /\ call'[p].op = "create_view"
       \/ pc[p] = "create_all_views"
ViewNameOf(p) ==
    IF pc[p] = "create_all_views" THEN Head(loc[p].view_paths).stem
    ELSE call'[p].view_name
QueryOf(p) ==
    IF pc[p] = "create_all_views" THEN read_query(Head(loc[p].view_paths))
    ELSE call'[p].query
RecreateOf(p) ==
    IF pc[p] = "create_all_views" THEN call[p].recreate ELSE call'[p].recreate
\* the create_view of this step raised
CreateViewFails(p) == ret'[p].exc \notin {"none", "pending"}

\* C18: create_view with recreate=False creates the view, with the given
\* query, when no view of that name exists; an existing view is left with
\* the query it has and no other view changes, whatever query is given,
\* and the call does not fail when the given query is one the store can run
C18_CreateOnlyIfAbsent ==
    [][\A p \in Procs :
        (CreateViewStep(p) /\ ~RecreateOf(p))
        => /\ views[ViewNameOf(p)] # NULL => views' = views
           /\ (views[ViewNameOf(p)] # NULL /\ Executable(QueryOf(p), views))
                => ~CreateViewFails(p)
           /\ (views[ViewNameOf(p)] = NULL /\ Executable(QueryOf(p), views))
                => /\ views' = [views EXCEPT ![ViewNameOf(p)] = Some(QueryOf(p))]
                   /\ ~CreateViewFails(p)]_vars
\* a call with recreate=False and a query other than the stored one has
\* returned and the view has its old query
C18_Witness ==
    \E p \in Procs :
        /\ call[p].op = "create_view"
        /\ ~call[p].recreate
        /\ call[p].view_name = "totals"
        /\ call[p].query = OutdatedQuery
        /\ ret[p].exc = "none"
        /\ actor = p
        /\ views["totals"] = Some(read_query(TotalsSql))

\* C20: when create_view with recreate=True fails in its create statement
\* after the drop statement was run, the view set is as it was before the
\* call: a view that existed still exists, with its old query
C20_FailedRecreateKeepsView ==
    [][\A p \in Procs :
        (/\ CreateViewStep(p)
         /\ RecreateOf(p)
         /\ DropIfExists(views, ViewNameOf(p)).exc = "none"
         /\ CreateViewFails(p))
        => /\ views' = views
           /\ views[ViewNameOf(p)] # NULL => views'[ViewNameOf(p)] = views[ViewNameOf(p)]]_vars
\* a recreate of an existing view has failed in its create statement and
\* the view is there with its old query
C20_Witness ==
    \E p \in Procs :
        /\ call[p].op = "create_view"
        /\ call[p].recreate
        /\ call[p].view_name = "shares"
        /\ ret[p].exc = "ProgrammingError"
        /\ actor = p
        /\ views["shares"] = Some(OutdatedQuery)

\* C21: a create_all_views call that fails at one of its views leaves the
\* view set as the call found it: no view processed earlier in the call
\* stays dropped, created or recreated
C21_CreateAllViewsAllOrNothing ==
    [][\A p \in Procs :
        (CreateAllViewsEnds(p) /\ CreateViewFails(p))
        => views' = loc[p].views_at_call]_vars

(* ---------------------------------------------------------------------- *)
(* Properties of run_scenario                                              *)
(* ---------------------------------------------------------------------- *)
\* caller p takes a step of a run_scenario call
RunScenarioStep(p) == actor' = p /\ call'[p].op = "run_scenario"

\* the scenario the call c asks for exists and its references have rows
ScenarioExists(c) ==
    /\ KwargsOf(c).climate_id # NULL
    /\ KwargsOf(c).weather_id # NULL
    /\ FilterBy(scenario, KwargsOf(c)) # {}

\* C22: a run_scenario call for a scenario that already exists returns
\* without starting a store and without writing a scalar or sequence row,
\* whether or not the scenario has results; a run_scenario call starts a
\* store only in the step that created its scenario, and no step of it
\* other than the commit of that store changes the result tables
C22_StoresOnlyWhenCreated ==
    [][\A p \in Procs :
        RunScenarioStep(p) =>
          /\ (pc[p] = "idle" /\ ScenarioExists(call'[p]))
               => /\ scalar' = scalar
                  /\ sequence' = sequence
                  /\ pc'[p] = "idle"
                  /\ ret'[p].exc = "none"
          /\ (pc[p] # "session_commit" /\ pc'[p] = "session_commit")
               => scenario' \ scenario # {}
          /\ pc[p] # "session_commit"
               => scalar' = scalar /\ sequence' = sequence]_vars
\* a scenario that holds results has been run again: the call returned and
\* the scenario has the rows, and the ids, of the one store call before it
C22_Witness ==
    \E p \in Procs :
        /\ call[p].op = "run_scenario"
        /\ actor = p
        /\ pc[p] = "idle"
        /\ ret[p].exc = "none"
        /\ ScenarioExists(call[p])
        /\ nstores = 1
        /\ \E r \in sequence :
             r.scenario_id \in {t.id : t \in FilterBy(scenario, KwargsOf(call[p]))}
        /\ sequence_seq = 1 + Cardinality(sequence)
        /\ scalar_seq = 1 + Cardinality(scalar)

====
